---- MODULE Spec2Model ----
(***************************************************************************)
(* Model of raiden_mps/contract_proxy.py: ContractProxy (transaction       *)
(* construction, log queries, the blocking event waiter) and               *)
(* ChannelContractProxy (the pre-bound channel operations and the          *)
(* settle-timeout lookup).                                                 *)
(***************************************************************************)
EXTENDS Integers, Sequences, FiniteSets, TLC

VARIABLES
    abi,        \* self.abi: the sequence of ABI entries of the proxy
    gas_price,  \* self.gas_price
    gas_limit,  \* self.gas_limit
    chainLogs,  \* the raw log entries of the contract, in transport order
    pc,         \* position of the running call: idle, poll, sleep, done
    call,       \* the arguments of the running call
    i,          \* the loop variable of get_event_blocking
    polls,      \* get_logs calls made by the running call
    fetches,    \* eth_getLogs requests sent to the transport by the running call
    sleeps,     \* gevent.sleep calls made by the running call
    slept,      \* total time slept by the running call
    lastLogs,   \* the decoded logs returned by the last get_logs call
    sawMatch,   \* some poll of the running call had an accepted entry
    transportErrors, \* eth_getLogs requests of the running call that failed
    lastQuery,  \* the filter parameters of the last eth_getLogs request
    result,     \* what the call returned or raised
    txCount,    \* web3.eth.getTransactionCount(caller_address)
    builds,     \* the transactions produced by the last create_transaction calls
    channels,   \* the contract's channels: key -> channel-info tuple
    settle,     \* the last get_settle_timeout call and its outcome
    other       \* the locals of a second get_event_blocking call in progress

vars == << abi, gas_price, gas_limit, chainLogs, pc, call, i, polls, fetches,
           sleeps, slept, lastLogs, sawMatch, transportErrors, lastQuery, result,
           txCount, builds,
           channels, settle, other >>

waitVars == << pc, call, i, polls, fetches, sleeps, slept, lastLogs, sawMatch,
              transportErrors, lastQuery, result >>
proxyVars == << abi, gas_price, gas_limit >>
buildVars == << txCount, builds >>
settleVars == << channels, settle >>

(***************************************************************************)
(* Bounds of the model.                                                    *)
(***************************************************************************)
MaxTimeout == 3
MaxWait == 2
MaxLogs == 2
MaxCount == 3
MaxOffset == 2
MaxChannels == 2

(***************************************************************************)
(* Program constants.                                                      *)
(***************************************************************************)
DEFAULT_TIMEOUT == 20
DEFAULT_RETRY_INTERVAL == 3

ADDRESS == "0xC0"
PRIVKEY == "key"

\* (wait, timeout) pairs a caller passes: chosen ones, or the defaults.
WaitTimeouts ==
    ((1..MaxWait) \X (0..MaxTimeout))
        \cup {<<DEFAULT_RETRY_INTERVAL, DEFAULT_TIMEOUT>>}

(***************************************************************************)
(* The ABI: entries with a type and a name; an event entry names its       *)
(* indexed inputs (log topics) and its other inputs (log data).            *)
(***************************************************************************)
FnGetChannelInfo ==
    [type |-> "function", name |-> "getChannelInfo", sig |-> "getChannelInfo",
     indexed |-> << >>, data |-> << >>]
EvCreated ==
    [type |-> "event", name |-> "ChannelCreated", sig |-> "ChannelCreated/3",
     indexed |-> <<"_sender", "_receiver">>, data |-> <<"_deposit">>]
EvCreatedOverload ==
    [type |-> "event", name |-> "ChannelCreated", sig |-> "ChannelCreated/2",
     indexed |-> <<"_sender">>, data |-> <<"_deposit">>]
EvToppedUp ==
    [type |-> "event", name |-> "ChannelToppedUp", sig |-> "ChannelToppedUp/5",
     indexed |-> <<"_sender", "_receiver", "_open_block_number">>,
     data |-> <<"_added_deposit", "_deposit">>]
EvCloseRequested ==
    [type |-> "event", name |-> "ChannelCloseRequested", sig |-> "ChannelCloseRequested/4",
     indexed |-> <<"_sender", "_receiver", "_open_block_number">>,
     data |-> <<"_balance">>]
EvSettled ==
    [type |-> "event", name |-> "ChannelSettled", sig |-> "ChannelSettled/3",
     indexed |-> <<"_sender", "_receiver", "_open_block_number">>,
     data |-> << >>]

\* The ABIs a proxy is constructed with: the contract's, and one that declares
\* an overloaded ChannelCreated before the usual one and has no ChannelToppedUp
\* and no ChannelSettled event.
Abis ==
    { <<FnGetChannelInfo, EvCreated, EvToppedUp, EvCloseRequested, EvSettled>>,
      <<FnGetChannelInfo, EvCreatedOverload, EvCreated, EvCloseRequested>> }

\* Event names a caller of the generic operations passes.
EventNames == {"ChannelCreated", "ChannelToppedUp", "getChannelInfo"}

(***************************************************************************)
(* Raw log entries the chain can hold: topics are the event signature and  *)
(* the indexed arguments, data the other arguments.                        *)
(***************************************************************************)
RawLogs ==
    { [topics |-> <<"ChannelCreated/3", "0xA", "0xB">>, data |-> <<100>>],
      [topics |-> <<"ChannelToppedUp/5", "0xA", "0xB", 10>>, data |-> <<50, 100>>],
      [topics |-> <<"ChannelToppedUp/5", "0xA", "0xB", 10>>, data |-> <<40, 100>>] }

Deposits == {90, 100}
Topups == {40, 50}
SenderReceivers == {<<"0xA", "0xB">>, <<"0xB", "0xA">>}
FromBlocks == {0, 2}

NoCall ==
    [op |-> "none", event_name |-> "", from_block |-> 0, to_block |-> "",
     filters |-> {}, condition |-> [kind |-> "none", deposit |-> 0, topup |-> 0],
     wait |-> 0, timeout |-> 0]

ChannelKeys == {<<"0xA", "0xB", 10>>, <<"0xA", "0xB", 11>>, <<"0xB", "0xA", 10>>}
SettleTimeouts == {5, 7}

NoSettle ==
    [key |-> << >>, read |-> [status |-> "none", info |-> << >>],
     result |-> [kind |-> "none", value |-> 0, err |-> ""]]

NoQuery == [fromBlock |-> 0, toBlock |-> "", address |-> "", topics |-> << >>]

NoResult == [kind |-> "none", entry |-> << >>, logs |-> << >>, err |-> ""]

\* No second call in progress.
NoOther ==
    [pc |-> "idle", call |-> NoCall, i |-> 0, polls |-> 0, sleeps |-> 0,
     slept |-> 0, lastLogs |-> << >>, result |-> NoResult]

(***************************************************************************)
(* get_logs                                                                *)
(***************************************************************************)
\* The list comprehension of get_logs: the event entries of the ABI with the
\* requested name, in ABI order.
EventAbisAnyType(abi_, event_name) ==
    SelectSeq(abi_, LAMBDA e : e.name = event_name)

EventAbis(abi_, event_name) ==
    SelectSeq(abi_, LAMBDA e : e.type = "event" /\ e.name = event_name)

\* construct_event_filter_params: block range, address, and one topic
\* pattern per indexed input ({} accepts any value), after the signature.
FilterParams(event_abi, filters, from_block, to_block) ==
    [fromBlock |-> from_block, toBlock |-> to_block, address |-> ADDRESS,
     topics |-> << {event_abi.sig} >> \o
                [j \in 1..Len(event_abi.indexed) |->
                    {p[2] : p \in {q \in filters : q[1] = event_abi.indexed[j]}}]]

\* The transport's eth_getLogs: the entries of the chain in the block range
\* whose topics fit the pattern, in chain order.
TopicsFit(topics, pattern) ==
    \A j \in 1..Len(pattern) :
        pattern[j] = {} \/ (j <= Len(topics) /\ topics[j] \in pattern[j])

RequestLogs(log, params) ==
    SelectSeq(log, LAMBDA e : /\ e.blockNumber >= params.fromBlock
                              /\ TopicsFit(e.topics, params.topics))

\* get_event_data(event_abi, log)['args']: the inputs by name.
DecodeArgs(event_abi, e) ==
    [n \in {event_abi.indexed[j] : j \in 1..Len(event_abi.indexed)}
           \cup {event_abi.data[j] : j \in 1..Len(event_abi.data)} |->
        IF \E j \in 1..Len(event_abi.indexed) : event_abi.indexed[j] = n
        THEN e.topics[1 + CHOOSE j \in 1..Len(event_abi.indexed) : event_abi.indexed[j] = n]
        ELSE e.data[CHOOSE j \in 1..Len(event_abi.data) : event_abi.data[j] = n]]

DecodeLogs(event_abi, raw) ==
    [k \in 1..Len(raw) |->
        [topics |-> raw[k].topics, data |-> raw[k].data,
         blockNumber |-> raw[k].blockNumber, args |-> DecodeArgs(event_abi, raw[k])]]

\* get_logs: status "IndexError" when no ABI entry is found (no request is
\* sent), "TransportError" when the request fails, else the decoded logs;
\* params are the filter parameters of the request sent.
GetLogsSwallowingErrors(abi_, log, event_name, from_block, to_block, filters, up) ==
    LET found == EventAbis(abi_, event_name) IN
    IF found = << >>
    THEN [status |-> "IndexError", logs |-> << >>, requested |-> FALSE, params |-> NoQuery]
    ELSE IF ~up
    THEN [status |-> "ok", logs |-> << >>, requested |-> TRUE,
          params |-> FilterParams(found[1], filters, from_block, to_block)]
    ELSE [status |-> "ok",
          logs |-> DecodeLogs(found[1],
                      RequestLogs(log, FilterParams(found[1], filters, from_block, to_block))),
          requested |-> TRUE,
          params |-> FilterParams(found[1], filters, from_block, to_block)]

GetLogs(abi_, log, event_name, from_block, to_block, filters, up) ==
    LET found == EventAbis(abi_, event_name) IN
    IF found = << >>
    THEN [status |-> "IndexError", logs |-> << >>, requested |-> FALSE, params |-> NoQuery]
    ELSE IF ~up
    THEN [status |-> "TransportError", logs |-> << >>, requested |-> TRUE,
          params |-> FilterParams(found[1], filters, from_block, to_block)]
    ELSE [status |-> "ok",
          logs |-> DecodeLogs(found[1],
                      RequestLogs(log, FilterParams(found[1], filters, from_block, to_block))),
          requested |-> TRUE,
          params |-> FilterParams(found[1], filters, from_block, to_block)]

(***************************************************************************)
(* get_event_blocking                                                      *)
(***************************************************************************)
\* The condition of get_channel_topped_up_event_blocking.
ToppedUpConditionDepositOnly(event, deposit, topup) ==
    event.args["_deposit"] = deposit

ToppedUpCondition(event, deposit, topup) ==
    event.args["_deposit"] = deposit /\ event.args["_added_deposit"] = topup

\* `not condition or condition(event)`
AcceptsOnlyWithCondition(condition, event) ==
    condition.kind # "none" /\ ToppedUpCondition(event, condition.deposit, condition.topup)

Accepts(condition, event) ==
    condition.kind = "none" \/ ToppedUpCondition(event, condition.deposit, condition.topup)

\* matching_logs
MatchingLogsUnfiltered(logs, condition) == logs

MatchingLogs(logs, condition) ==
    SelectSeq(logs, LAMBDA event : Accepts(condition, event))

\* range(0, timeout + wait, wait) still has the value j.
InRangeBelowTimeout(j, wait, timeout) == j < timeout

InRangeOneMore(j, wait, timeout) == j <= timeout + wait

InRangeUpToTimeout(j, wait, timeout) == j <= timeout

InRange(j, wait, timeout) == j < timeout + wait

\* `elif i < timeout`
SleepsAfterAlways(j, timeout) == TRUE

SleepsAfterInclusive(j, timeout) == j <= timeout

SleepsAfter(j, timeout) == j < timeout

\* matching_logs[0]
LastMatch(matching_logs) == matching_logs[Len(matching_logs)]

FirstMatch(matching_logs) == matching_logs[1]

\* The from_block a poll passes to get_logs: the caller's, whatever the
\* earlier polls returned.
PollFromBlockAfterSeen(c, seen) ==
    IF seen = << >> THEN c.from_block ELSE seen[Len(seen)].blockNumber + 1

PollFromBlock(c, seen) == c.from_block

\* gevent.sleep(wait)
SleepTimeDefault(wait) == DEFAULT_RETRY_INTERVAL

SleepTime(wait) == wait

Match(event) == [kind |-> "match", entry |-> event, logs |-> << >>, err |-> ""]
Absent == [kind |-> "absent", entry |-> << >>, logs |-> << >>, err |-> ""]
Raised(e) == [kind |-> "error", entry |-> << >>, logs |-> << >>, err |-> e]
Logs(l) == [kind |-> "logs", entry |-> << >>, logs |-> l, err |-> ""]

\* Entry of get_event_blocking with the arguments c: the loop starts at
\* i = 0, or falls through to `return None` when the range is empty.
StartBlocking(c) ==
    /\ pc = "idle"
    /\ call' = c
    /\ i' = 0
    /\ polls' = 0
    /\ fetches' = 0
    /\ sleeps' = 0
    /\ slept' = 0
    /\ lastLogs' = << >>
    /\ sawMatch' = FALSE
    /\ transportErrors' = 0
    /\ lastQuery' = NoQuery
    /\ IF InRange(0, c.wait, c.timeout)
       THEN pc' = "poll" /\ result' = NoResult
       ELSE pc' = "done" /\ result' = Absent
    /\ UNCHANGED << proxyVars, chainLogs, buildVars, settleVars, other >>

\* The loop takes its next value, or ends and the call returns None.
NextIterationSameValue ==
    /\ i' = i
    /\ IF InRange(i, call.wait, call.timeout)
       THEN pc' = "poll" /\ result' = result
       ELSE pc' = "done" /\ result' = Absent

NextIteration ==
    /\ i' = i + call.wait
    /\ IF InRange(i + call.wait, call.wait, call.timeout)
       THEN pc' = "poll" /\ result' = result
       ELSE pc' = "done" /\ result' = Absent

\* One pass of the loop body up to the sleep: get_logs, the filter by the
\* condition, the return of the first match.
Poll ==
    /\ pc = "poll"
    /\ \E up \in BOOLEAN :
          LET r == GetLogs(abi, chainLogs, call.event_name,
                           PollFromBlock(call, lastLogs), call.to_block, call.filters, up)
              matching_logs == MatchingLogs(r.logs, call.condition)
          IN
          /\ polls' = polls + 1
          /\ fetches' = fetches + (IF r.requested THEN 1 ELSE 0)
          /\ transportErrors' = transportErrors + (IF r.requested /\ ~up THEN 1 ELSE 0)
          /\ lastQuery' = IF r.requested THEN r.params ELSE lastQuery
          /\ IF r.status # "ok"
             THEN /\ pc' = "done"
                  /\ result' = Raised(r.status)
                  /\ UNCHANGED << i, lastLogs, sawMatch >>
             ELSE /\ lastLogs' = r.logs
                  /\ IF matching_logs # << >>
                     THEN /\ pc' = "done"
                          /\ result' = Match(FirstMatch(matching_logs))
                          /\ sawMatch' = TRUE
                          /\ i' = i
                     ELSE /\ sawMatch' = sawMatch
                          /\ IF SleepsAfter(i, call.timeout)
                             THEN pc' = "sleep" /\ i' = i /\ result' = result
                             ELSE NextIteration
    /\ UNCHANGED << call, sleeps, slept, proxyVars, chainLogs, buildVars, settleVars, other >>

\* gevent.sleep(wait) returns and the loop goes on.
Sleep ==
    /\ pc = "sleep"
    /\ sleeps' = sleeps + 1
    /\ slept' = slept + SleepTime(call.wait)
    /\ NextIteration
    /\ UNCHANGED << call, polls, fetches, lastLogs, sawMatch, transportErrors,
                    lastQuery, proxyVars, chainLogs, buildVars, settleVars, other >>

NoCondition == [kind |-> "none", deposit |-> 0, topup |-> 0]

GetEventBlocking ==
    \E event_name \in EventNames, from_block \in FromBlocks, wt \in WaitTimeouts :
        StartBlocking([op |-> "get_event_blocking", event_name |-> event_name,
                       from_block |-> from_block, to_block |-> "pending",
                       filters |-> {}, condition |-> NoCondition,
                       wait |-> wt[1], timeout |-> wt[2]])

GetChannelCreatedEventBlocking ==
    \E sr \in SenderReceivers, wt \in WaitTimeouts :
        StartBlocking([op |-> "get_channel_created_event_blocking",
                       event_name |-> "ChannelCreated",
                       from_block |-> 0, to_block |-> "pending",
                       filters |-> {<<"_sender", sr[1]>>, <<"_receiver", sr[2]>>},
                       condition |-> NoCondition,
                       wait |-> wt[1], timeout |-> wt[2]])

ChannelFilters(sender, receiver, opening_block) ==
    {<<"_sender", sender>>, <<"_receiver", receiver>>,
     <<"_open_block_number", opening_block>>}

GetChannelToppedUpEventBlocking ==
    \E deposit \in Deposits, topup \in Topups, wt \in WaitTimeouts :
        StartBlocking([op |-> "get_channel_topped_up_event_blocking",
                       event_name |-> "ChannelToppedUp",
                       from_block |-> 0, to_block |-> "pending",
                       filters |-> ChannelFilters("0xA", "0xB", 10),
                       condition |-> [kind |-> "topped_up", deposit |-> deposit,
                                      topup |-> topup],
                       wait |-> wt[1], timeout |-> wt[2]])

GetChannelCloseRequestedEventBlocking ==
    \E wt \in WaitTimeouts :
        StartBlocking([op |-> "get_channel_close_requested_event_blocking",
                       event_name |-> "ChannelCloseRequested",
                       from_block |-> 0, to_block |-> "pending",
                       filters |-> ChannelFilters("0xA", "0xB", 10),
                       condition |-> NoCondition,
                       wait |-> wt[1], timeout |-> wt[2]])

GetChannelSettleEventBlocking ==
    \E wt \in WaitTimeouts :
        StartBlocking([op |-> "get_channel_settle_event_blocking",
                       event_name |-> "ChannelSettled",
                       from_block |-> 0, to_block |-> "pending",
                       filters |-> ChannelFilters("0xA", "0xB", 10),
                       condition |-> NoCondition,
                       wait |-> wt[1], timeout |-> wt[2]])

(***************************************************************************)
(* Direct log queries: get_logs and the pre-bound get_*_logs.              *)
(***************************************************************************)
GetLogsCall(op, event_name, from_block, filters) ==
    /\ pc = "idle"
    /\ \E up \in BOOLEAN :
          LET r == GetLogs(abi, chainLogs, event_name, from_block, "latest", filters, up)
          IN
          /\ call' = [op |-> op, event_name |-> event_name, from_block |-> from_block,
                      to_block |-> "latest", filters |-> filters,
                      condition |-> NoCondition, wait |-> 0, timeout |-> 0]
          /\ polls' = 1
          /\ fetches' = IF r.requested THEN 1 ELSE 0
          /\ transportErrors' = IF r.requested /\ ~up THEN 1 ELSE 0
          /\ lastQuery' = r.params
          /\ lastLogs' = r.logs
          /\ result' = IF r.status = "ok" THEN Logs(r.logs) ELSE Raised(r.status)
    /\ pc' = "done"
    /\ i' = 0
    /\ sleeps' = 0
    /\ slept' = 0
    /\ sawMatch' = FALSE
    /\ UNCHANGED << proxyVars, chainLogs, buildVars, settleVars, other >>

GetLogsDirect ==
    \E event_name \in EventNames, from_block \in FromBlocks :
        GetLogsCall("get_logs", event_name, from_block, {})

GetChannelCreatedLogs ==
    GetLogsCall("get_channel_created_logs", "ChannelCreated", 0, {})

GetChannelToppedUpLogs ==
    GetLogsCall("get_channel_topped_up_logs", "ChannelToppedUp", 0, {})

GetChannelCloseRequestedLogs ==
    GetLogsCall("get_channel_close_requested_logs", "ChannelCloseRequested", 0, {})

GetChannelSettledLogs ==
    GetLogsCall("get_channel_settled_logs", "ChannelSettled", 0, {})

GetChannelTopupLogs ==
    GetLogsCall("get_channel_topup_logs", "ChannelToppedUp", 0, {})

\* The caller has taken the result (or the exception); the locals of the
\* call are gone and the proxy is ready for the next call.
Return ==
    /\ pc = "done"
    /\ pc' = "idle"
    /\ call' = NoCall
    /\ i' = 0
    /\ polls' = 0
    /\ fetches' = 0
    /\ sleeps' = 0
    /\ slept' = 0
    /\ lastLogs' = << >>
    /\ sawMatch' = FALSE
    /\ transportErrors' = 0
    /\ lastQuery' = NoQuery
    /\ result' = NoResult
    /\ UNCHANGED << proxyVars, chainLogs, buildVars, settleVars, other >>

(***************************************************************************)
(* The chain: a new event of the contract is logged.                       *)
(***************************************************************************)
AppendLog ==
    /\ Len(chainLogs) < MaxLogs
    /\ \E raw \in RawLogs :
          chainLogs' = Append(chainLogs,
                              [topics |-> raw.topics, data |-> raw.data,
                               blockNumber |-> Len(chainLogs) + 1])
    /\ UNCHANGED << proxyVars, waitVars, buildVars, settleVars, other >>

(***************************************************************************)
(* The proxy after construction, no call made yet.                         *)
(***************************************************************************)
GasPrices == {20}
GasLimits == {20, 130}

Init ==
    /\ abi \in Abis
    /\ gas_price = 20
    /\ gas_limit = 130
    /\ chainLogs = << >>
    /\ pc = "idle"
    /\ call = NoCall
    /\ i = 0
    /\ polls = 0
    /\ fetches = 0
    /\ sleeps = 0
    /\ slept = 0
    /\ lastLogs = << >>
    /\ sawMatch = FALSE
    /\ transportErrors = 0
    /\ lastQuery = NoQuery
    /\ result = NoResult
    /\ txCount = 0
    /\ builds = << >>
    /\ channels = {}
    /\ settle = NoSettle
    /\ other = NoOther

Next ==
    \/ GetEventBlocking
    \/ GetChannelCreatedEventBlocking
    \/ GetChannelToppedUpEventBlocking
    \/ GetChannelCloseRequestedEventBlocking
    \/ GetChannelSettleEventBlocking
    \/ Poll
    \/ Sleep
    \/ GetLogsDirect
    \/ GetChannelCreatedLogs
    \/ GetChannelToppedUpLogs
    \/ GetChannelCloseRequestedLogs
    \/ GetChannelSettledLogs
    \/ GetChannelTopupLogs
    \/ Return
    \/ AppendLog

Spec == Init /\ [][Next]_vars

\* Each poll and each sleep of a running call completes: the request is
\* blocking and the sleep is a timer of the scheduler.
SpecLive == Spec /\ WF_vars(Poll) /\ WF_vars(Sleep)

(***************************************************************************)
(* Two get_event_blocking calls in progress at once (two greenlets on one  *)
(* proxy).  The first call runs in pc, call, i, ...; the second call's     *)
(* locals are the record other.  Both run the same code; a step of either  *)
(* is one get_logs request or one gevent.sleep.                            *)
(***************************************************************************)
TwoWaitTimeouts == {<<1, 1>>, <<2, 1>>, <<2, 3>>}

StandardAbi ==
    CHOOSE a \in Abis : \A k \in 1..Len(a) : a[k] # EvCreatedOverload

InitTwo ==
    /\ Init
    /\ abi = StandardAbi

\* The first call: a wait for a top-up of the channel.
TwoStartFirst ==
    \E topup \in Topups, wt \in TwoWaitTimeouts :
        StartBlocking([op |-> "get_channel_topped_up_event_blocking",
                       event_name |-> "ChannelToppedUp",
                       from_block |-> 0, to_block |-> "pending",
                       filters |-> ChannelFilters("0xA", "0xB", 10),
                       condition |-> [kind |-> "topped_up", deposit |-> 100,
                                      topup |-> topup],
                       wait |-> wt[1], timeout |-> wt[2]])

\* The loop variable of the second call is its own local.
LoopVarOfFirstCall == i

OtherLoopVar == other.i

\* The second call's loop takes its next value after j, or ends.
OtherNextIteration(f, j) ==
    [f EXCEPT !.i = j + f.call.wait,
              !.pc = IF InRange(j + f.call.wait, f.call.wait, f.call.timeout)
                     THEN "poll" ELSE "done",
              !.result = IF InRange(j + f.call.wait, f.call.wait, f.call.timeout)
                         THEN f.result ELSE Absent]

OtherStartBlocking(c) ==
    /\ other.pc = "idle"
    /\ other' = [pc |-> IF InRange(0, c.wait, c.timeout) THEN "poll" ELSE "done",
                 call |-> c, i |-> 0, polls |-> 0, sleeps |-> 0, slept |-> 0,
                 lastLogs |-> << >>,
                 result |-> IF InRange(0, c.wait, c.timeout) THEN NoResult ELSE Absent]
    /\ UNCHANGED << proxyVars, chainLogs, waitVars, buildVars, settleVars >>

\* The second call: a wait for the creation of a channel of the same sender
\* and receiver, or for a top-up of the same channel.
TwoStartSecond ==
    \E wt \in TwoWaitTimeouts :
        \/ OtherStartBlocking([op |-> "get_channel_created_event_blocking",
                               event_name |-> "ChannelCreated",
                               from_block |-> 0, to_block |-> "pending",
                               filters |-> {<<"_sender", "0xA">>, <<"_receiver", "0xB">>},
                               condition |-> NoCondition,
                               wait |-> wt[1], timeout |-> wt[2]])
        \/ OtherStartBlocking([op |-> "get_channel_topped_up_event_blocking",
                               event_name |-> "ChannelToppedUp",
                               from_block |-> 0, to_block |-> "pending",
                               filters |-> ChannelFilters("0xA", "0xB", 10),
                               condition |-> [kind |-> "topped_up", deposit |-> 100,
                                              topup |-> 50],
                               wait |-> wt[1], timeout |-> wt[2]])

OtherPoll ==
    /\ other.pc = "poll"
    /\ \E up \in BOOLEAN :
          LET c == other.call
              r == GetLogs(abi, chainLogs, c.event_name,
                           PollFromBlock(c, other.lastLogs), c.to_block, c.filters, up)
              matching_logs == MatchingLogs(r.logs, c.condition)
              polled == [other EXCEPT !.polls = other.polls + 1]
          IN
          other' =
              IF r.status # "ok"
              THEN [polled EXCEPT !.pc = "done", !.result = Raised(r.status)]
              ELSE IF matching_logs # << >>
              THEN [polled EXCEPT !.lastLogs = r.logs, !.pc = "done",
                                  !.result = Match(FirstMatch(matching_logs))]
              ELSE IF SleepsAfter(OtherLoopVar, c.timeout)
              THEN [polled EXCEPT !.lastLogs = r.logs, !.pc = "sleep"]
              ELSE OtherNextIteration([polled EXCEPT !.lastLogs = r.logs], OtherLoopVar)
    /\ UNCHANGED << proxyVars, chainLogs, waitVars, buildVars, settleVars >>

OtherSleep ==
    /\ other.pc = "sleep"
    /\ other' = OtherNextIteration(
                    [other EXCEPT !.sleeps = other.sleeps + 1,
                                  !.slept = other.slept + SleepTime(other.call.wait)],
                    OtherLoopVar)
    /\ UNCHANGED << proxyVars, chainLogs, waitVars, buildVars, settleVars >>

\* The second call's caller has taken the result; its locals are gone.
OtherReturn ==
    /\ other.pc = "done"
    /\ other' = NoOther
    /\ UNCHANGED << proxyVars, chainLogs, waitVars, buildVars, settleVars >>

NextTwo ==
    \/ TwoStartFirst
    \/ TwoStartSecond
    \/ Poll
    \/ Sleep
    \/ Return
    \/ OtherPoll
    \/ OtherSleep
    \/ OtherReturn
    \/ AppendLog

SpecTwo == InitTwo /\ [][NextTwo]_vars

(***************************************************************************)
(* create_transaction                                                      *)
(***************************************************************************)
FuncNames == {"close", "settle"}

\* nonce = getTransactionCount(caller_address) + nonce_offset
NonceIgnoringOffset(count, nonce_offset) == count

NonceCountingBuilds(count, nonce_offset) == count + nonce_offset + Len(builds)

Nonce(count, nonce_offset) == count + nonce_offset

\* Transaction(nonce, gasprice, startgas, to, value, data)
TransactionSwappedGas(nonce, gasprice, startgas, to, value, data) ==
    [nonce |-> nonce, gasprice |-> startgas, startgas |-> gasprice, to |-> to,
     value |-> value, data |-> data]

Transaction(nonce, gasprice, startgas, to, value, data) ==
    [nonce |-> nonce, gasprice |-> gasprice, startgas |-> startgas, to |-> to,
     value |-> value, data |-> data]

\* web3.toHex(rlp.encode(tx.sign(privkey))): the signed fields, encoded.
SignedHex(tx, privkey) == << "0x", tx, privkey >>

\* The transaction create_transaction builds when the account's transaction
\* count reads `count`.
BuildTransaction(count, func_name, args, nonce_offset) ==
    Transaction(Nonce(count, nonce_offset), gas_price, gas_limit, ADDRESS, 0,
                << func_name, args >>)

\* create_transaction; `builds` keeps the last two calls: the offset given,
\* the count read, the transaction and the returned hex.
CreateTransaction ==
    /\ \E func_name \in FuncNames, nonce_offset \in 0..MaxOffset :
          LET tx == BuildTransaction(txCount, func_name, << >>, nonce_offset)
              made == [nonce_offset |-> nonce_offset, count |-> txCount, tx |-> tx,
                       hex |-> SignedHex(tx, PRIVKEY)]
          IN builds' = IF Len(builds) < 2 THEN Append(builds, made)
                       ELSE << builds[2], made >>
    /\ UNCHANGED << txCount, proxyVars, chainLogs, waitVars, settleVars, other >>

\* The chain: a transaction of the caller account is mined.
MineTransaction ==
    /\ txCount < MaxCount
    /\ txCount' = txCount + 1
    /\ UNCHANGED << builds, proxyVars, chainLogs, waitVars, settleVars, other >>

InitProxy ==
    /\ abi \in Abis
    /\ gas_price \in GasPrices
    /\ gas_limit \in GasLimits
    /\ chainLogs = << >>
    /\ pc = "idle"
    /\ call = NoCall
    /\ i = 0
    /\ polls = 0
    /\ fetches = 0
    /\ sleeps = 0
    /\ slept = 0
    /\ lastLogs = << >>
    /\ sawMatch = FALSE
    /\ transportErrors = 0
    /\ lastQuery = NoQuery
    /\ result = NoResult
    /\ txCount = 0
    /\ builds = << >>
    /\ channels = {}
    /\ settle = NoSettle
    /\ other = NoOther

NextBuild ==
    \/ CreateTransaction
    \/ MineTransaction

SpecBuild == InitProxy /\ [][NextBuild]_vars

(***************************************************************************)
(* get_settle_timeout                                                      *)
(***************************************************************************)
\* contract.call().getChannelInfo(sender, receiver, open_block_number): the
\* channel-info tuple, BadFunctionCallOutput when the contract has no
\* such channel, another exception when the call does not get through.
GetChannelInfo(chs, key, up) ==
    IF ~up THEN [status |-> "ConnectionError", info |-> << >>]
    ELSE IF \E ch \in chs : ch.key = key
    THEN [status |-> "ok", info |-> (CHOOSE ch \in chs : ch.key = key).info]
    ELSE [status |-> "BadFunctionCallOutput", info |-> << >>]

\* channel_info[3], counted from 0.
SettleTimeoutField(channel_info) == channel_info[4]

\* `except BadFunctionCallOutput`
CaughtAnyException(status) == status # "ok"

Caught(status) == status = "BadFunctionCallOutput"

\* What get_settle_timeout returns or raises for the outcome of the read.
SettleTimeoutOf(read) ==
    IF Caught(read.status) THEN [kind |-> "absent", value |-> 0, err |-> ""]
    ELSE IF read.status # "ok" THEN [kind |-> "error", value |-> 0, err |-> read.status]
    ELSE [kind |-> "value", value |-> SettleTimeoutField(read.info), err |-> ""]

GetSettleTimeout ==
    /\ \E key \in ChannelKeys, up \in BOOLEAN :
          LET read == GetChannelInfo(channels, key, up) IN
          settle' = [key |-> key, read |-> read, result |-> SettleTimeoutOf(read)]
    /\ UNCHANGED << channels, proxyVars, chainLogs, waitVars, buildVars, other >>

\* The chain: a channel is created in the contract.
CreateChannel ==
    /\ Cardinality(channels) < MaxChannels
    /\ \E key \in ChannelKeys, t \in SettleTimeouts :
          /\ \A ch \in channels : ch.key # key
          /\ channels' = channels \cup {[key |-> key, info |-> << "key", 100, 0, t >>]}
    /\ UNCHANGED << settle, proxyVars, chainLogs, waitVars, buildVars, other >>

NextSettle ==
    \/ GetSettleTimeout
    \/ CreateChannel

SpecSettle == InitProxy /\ [][NextSettle]_vars

(***************************************************************************)
(* Properties.                                                             *)
(***************************************************************************)
BlockingOps ==
    {"get_event_blocking", "get_channel_created_event_blocking",
     "get_channel_topped_up_event_blocking",
     "get_channel_close_requested_event_blocking",
     "get_channel_settle_event_blocking"}

IsBlocking == call.op \in BlockingOps

CeilDiv(a, b) == (a + b - 1) \div b

\* The number of event entries of the ABI with this name.
EventEntryCount(name) ==
    Cardinality({k \in 1..Len(abi) : abi[k].type = "event" /\ abi[k].name = name})

\* The condition of the call accepts the decoded entry e.
AcceptedBy(condition, e) ==
    \/ condition.kind = "none"
    \/ /\ e.args["_deposit"] = condition.deposit
       /\ e.args["_added_deposit"] = condition.topup

\* The signature of the contract's event of this name.
SigOfName(name) ==
    CASE name = "ChannelCreated" -> "ChannelCreated/3"
      [] name = "ChannelToppedUp" -> "ChannelToppedUp/5"
      [] name = "ChannelCloseRequested" -> "ChannelCloseRequested/4"
      [] name = "ChannelSettled" -> "ChannelSettled/3"
      [] OTHER -> "no such event"

\* The log entry e (raw or decoded) is one the call c waits for: its event,
\* block range, argument filters and amounts.
RawFits(c, e) ==
    /\ e.topics[1] = SigOfName(c.event_name)
    /\ e.blockNumber >= c.from_block
    /\ \A f \in c.filters :
          /\ f[1] = "_sender" => e.topics[2] = f[2]
          /\ f[1] = "_receiver" => e.topics[3] = f[2]
          /\ f[1] = "_open_block_number" => e.topics[4] = f[2]
    /\ c.condition.kind = "topped_up" =>
          e.data = << c.condition.topup, c.condition.deposit >>

\* C1 as stated: a wait that never sees a match returns absent after exactly
\* floor(timeout / wait) + 1 polls.
C1_AbsentAfterFloorPlusOnePolls ==
    (pc = "done" /\ IsBlocking /\ result = Absent)
        => polls = (call.timeout \div call.wait) + 1

\* C1 amended: a wait that never sees a match returns absent after exactly
\* ceil(timeout / wait) + 1 polls, and no wait makes more polls than that.
C1_AbsentAfterCeilPlusOnePolls ==
    IsBlocking =>
        /\ polls <= CeilDiv(call.timeout, call.wait) + 1
        /\ (pc = "done" /\ result = Absent)
              => polls = CeilDiv(call.timeout, call.wait) + 1

C1_Witness ==
    /\ pc = "done"
    /\ IsBlocking
    /\ result = Absent
    /\ call.timeout = DEFAULT_TIMEOUT
    /\ call.wait = DEFAULT_RETRY_INTERVAL
    /\ polls = 8

\* C2: with timeout = 0 a wait makes exactly one poll and never sleeps; it
\* returns the first accepted entry of that poll, or absent when there is none.
C2_ZeroTimeoutOnePollNoSleep ==
    (IsBlocking /\ call.timeout = 0) =>
        /\ sleeps = 0
        /\ slept = 0
        /\ pc # "sleep"
        /\ pc = "poll" => polls = 0
        /\ pc = "done" =>
              /\ polls = 1
              /\ result.kind \in {"match", "absent", "error"}
              /\ result.kind = "match" <=>
                    \E k \in 1..Len(lastLogs) : AcceptedBy(call.condition, lastLogs[k])
              /\ result.kind = "match" => AcceptedBy(call.condition, result.entry)
              /\ result.kind = "error" => lastLogs = << >>

C2_Witness ==
    /\ pc = "done"
    /\ IsBlocking
    /\ call.timeout = 0
    /\ call.wait = 2
    /\ result.kind = "match"
    /\ polls = 1
    /\ sleeps = 0

\* C5: for an event name with no event entry in the ABI, a log query or a
\* wait ends in an error with no request sent, no sleep and no second poll.
C5_UnknownEventFailsBeforeFetch ==
    (call.op # "none" /\ EventEntryCount(call.event_name) = 0) =>
        /\ fetches = 0
        /\ sleeps = 0
        /\ pc # "sleep"
        /\ polls <= 1
        /\ pc = "done" => (polls = 1 /\ result = Raised("IndexError"))

C5_Witness ==
    /\ pc = "done"
    /\ call.op = "get_channel_topped_up_event_blocking"
    /\ call.timeout > 0
    /\ EventEntryCount(call.event_name) = 0
    /\ result = Raised("IndexError")
    /\ fetches = 0

\* C6 as stated: when the ABI has more than one event entry with the
\* requested name, the query ends in an error and sends no log request.
C6_AmbiguousEventIsError ==
    (call.op # "none" /\ pc = "done" /\ EventEntryCount(call.event_name) > 1)
        => (result.kind = "error" /\ fetches = 0)

\* C8: the topped-up wait returns only an entry whose _deposit and
\* _added_deposit both equal the requested amounts; when every entry of its
\* polls differs in one of them it returns absent, after the last poll of
\* the timeout.
C8_ToppedUpNeedsBothAmounts ==
    call.op = "get_channel_topped_up_event_blocking" =>
        /\ (pc = "done" /\ result.kind = "match") =>
              /\ result.entry.args["_deposit"] = call.condition.deposit
              /\ result.entry.args["_added_deposit"] = call.condition.topup
              /\ result.entry.data = << call.condition.topup, call.condition.deposit >>
        /\ (/\ pc = "done"
            /\ result.kind # "error"
            /\ \A k \in 1..Len(lastLogs) :
                  \/ lastLogs[k].args["_deposit"] # call.condition.deposit
                  \/ lastLogs[k].args["_added_deposit"] # call.condition.topup)
              => (result = Absent /\ polls = CeilDiv(call.timeout, call.wait) + 1)

C8_Witness ==
    /\ pc = "done"
    /\ call.op = "get_channel_topped_up_event_blocking"
    /\ call.condition.deposit = 100
    /\ call.condition.topup = 40
    /\ result = Absent
    /\ \E k \in 1..Len(lastLogs) :
          lastLogs[k].args["_deposit"] = 100 /\ lastLogs[k].args["_added_deposit"] = 50

\* C9: a wait returns at the earliest poll whose result has an accepted
\* entry: while it runs no poll so far had one, a poll made while the log
\* holds an entry the call waits for ends the wait with such an entry and
\* without a sleep, and no sleep comes before the first poll.
C9_ReturnsAtEarliestMatchingPoll ==
    /\ [](IsBlocking =>
            /\ pc \in {"poll", "sleep"} =>
                  /\ ~sawMatch
                  /\ \A k \in 1..Len(lastLogs) : ~AcceptedBy(call.condition, lastLogs[k])
            /\ polls = 0 => sleeps = 0
            /\ (/\ pc = "done"
                /\ result.kind # "error"
                /\ \E k \in 1..Len(lastLogs) : AcceptedBy(call.condition, lastLogs[k]))
                  => result.kind = "match")
    /\ [][(/\ pc = "poll"
           /\ IsBlocking
           /\ polls' = polls + 1
           /\ EventEntryCount(call.event_name) = 1
           /\ \E k \in 1..Len(chainLogs) : RawFits(call, chainLogs[k])
           /\ result'.kind # "error")
            => /\ pc' = "done"
               /\ result'.kind = "match"
               /\ RawFits(call, result'.entry)
               /\ sleeps' = sleeps]_vars

C9_Witness ==
    /\ pc = "done"
    /\ call.op = "get_channel_created_event_blocking"
    /\ call.timeout = 3
    /\ call.wait = 1
    /\ result.kind = "match"
    /\ result.entry.args["_sender"] = "0xA"
    /\ result.entry.args["_receiver"] = "0xB"
    /\ polls = 1
    /\ sleeps = 0

\* C10: a finished wait raised only a configuration or transport error;
\* without one it returned absent exactly when no poll had an accepted
\* entry, and an entry it returned is in the last poll's result and is
\* accepted by the condition (any entry, when there is no condition).
C10_AbsentIffNoPollMatched ==
    (pc = "done" /\ IsBlocking) =>
        /\ result.kind \in {"match", "absent", "error"}
        /\ result.kind = "error" => result.err \in {"IndexError", "TransportError"}
        /\ result.kind # "error" => (result = Absent <=> ~sawMatch)
        /\ result.kind = "absent" =>
              \A k \in 1..Len(lastLogs) : ~AcceptedBy(call.condition, lastLogs[k])
        /\ result.kind = "match" =>
              /\ \E k \in 1..Len(lastLogs) : lastLogs[k] = result.entry
              /\ AcceptedBy(call.condition, result.entry)

C10_Witness ==
    /\ pc = "done"
    /\ IsBlocking
    /\ result = Absent
    /\ ~sawMatch
    /\ polls >= 2
    /\ Len(lastLogs) >= 1

\* C3 as stated: two builds given different nonce offsets have different
\* nonces, whatever the transaction count was at each call.
C3_DifferentOffsetsNeverCollide ==
    \A a, b \in 1..Len(builds) :
        builds[a].nonce_offset # builds[b].nonce_offset
            => builds[a].tx.nonce # builds[b].tx.nonce

\* C3 amended: two builds given different nonce offsets that read the same
\* transaction count have different nonces.
C3_DifferentOffsetsSameCount ==
    \A a, b \in 1..Len(builds) :
        (/\ builds[a].nonce_offset # builds[b].nonce_offset
         /\ builds[a].count = builds[b].count)
            => builds[a].tx.nonce # builds[b].tx.nonce

C3_Witness ==
    /\ Len(builds) = 2
    /\ builds[1].count = 1
    /\ builds[2].count = 1
    /\ builds[1].nonce_offset = 0
    /\ builds[2].nonce_offset = 2

\* C4: a built transaction has the nonce count + offset, value 0, the
\* contract address as recipient and the proxy's gas price and gas limit.
C4_BuiltTransactionFields ==
    \A a \in 1..Len(builds) :
        /\ builds[a].tx.nonce = builds[a].count + builds[a].nonce_offset
        /\ builds[a].tx.value = 0
        /\ builds[a].tx.to = ADDRESS
        /\ builds[a].tx.gasprice = gas_price
        /\ builds[a].tx.startgas = gas_limit
        /\ builds[a].hex = << "0x", builds[a].tx, PRIVKEY >>

C4_Witness ==
    /\ Len(builds) >= 1
    /\ builds[1].count = 1
    /\ builds[1].nonce_offset = 2
    /\ builds[1].tx.nonce = 3
    /\ gas_price # gas_limit

\* C7: get_settle_timeout returns absent exactly when the read raised
\* BadFunctionCallOutput (no such channel); a read that succeeds gives field
\* 3 (counted from 0) of the channel info; any other failure is raised.
C7_SettleTimeoutAbsentOnlyForMissingChannel ==
    settle.read.status # "none" =>
        /\ settle.result.kind = "absent" <=> settle.read.status = "BadFunctionCallOutput"
        /\ settle.read.status = "ok" =>
              /\ settle.result.kind = "value"
              /\ settle.result.value = settle.read.info[3 + 1]
              /\ settle.result.value \in SettleTimeouts
              /\ \E ch \in channels :
                    ch.key = settle.key /\ ch.info[3 + 1] = settle.result.value
        /\ settle.read.status \notin {"ok", "BadFunctionCallOutput"} =>
              /\ settle.result.kind = "error"
              /\ settle.result.err = settle.read.status

C7_Witness ==
    /\ settle.result.kind = "absent"
    /\ settle.key = <<"0xA", "0xB", 11>>
    /\ \E ch \in channels : ch.key = <<"0xA", "0xB", 10>>

\* The step only changes the chain or hands the result to the caller.
CallUntouched == pc' = "idle" \/ UNCHANGED waitVars

\* C11: a transport error of the log fetch ends the wait at that poll with
\* that error: no sleep and no poll follows, and the outcome is neither
\* absent nor a match.
C11_TransportErrorEndsWait ==
    /\ [](IsBlocking /\ transportErrors > 0 =>
            /\ pc = "done"
            /\ transportErrors = 1
            /\ result = Raised("TransportError")
            /\ result.kind \notin {"absent", "match"})
    /\ [][(IsBlocking /\ transportErrors' > transportErrors) =>
            /\ pc' = "done"
            /\ result' = Raised("TransportError")
            /\ polls' = polls + 1
            /\ sleeps' = sleeps
            /\ slept' = slept]_vars
    /\ [][(IsBlocking /\ pc = "done" /\ result.kind = "error") => CallUntouched]_vars

C11_Witness ==
    /\ pc = "done"
    /\ IsBlocking
    /\ transportErrors = 1
    /\ polls >= 2
    /\ sleeps = polls - 1
    /\ result = Raised("TransportError")

\* C12: the entry a wait returns is the first entry of its last poll's
\* result, in the transport's order, that the condition accepts; the wait
\* is over at that poll.
C12_FirstAcceptedEntryInOrder ==
    (IsBlocking /\ result.kind = "match") =>
        /\ pc = "done"
        /\ sleeps = polls - 1
        /\ \E k \in 1..Len(lastLogs) :
              /\ lastLogs[k] = result.entry
              /\ AcceptedBy(call.condition, lastLogs[k])
              /\ \A j \in 1..(k - 1) : ~AcceptedBy(call.condition, lastLogs[j])

C12_Witness ==
    /\ pc = "done"
    /\ IsBlocking
    /\ call.condition.kind = "topped_up"
    /\ result.kind = "match"
    /\ Len(lastLogs) = 2
    /\ result.entry = lastLogs[2]
    /\ result.entry # lastLogs[1]

\* C13: a wait polls at least once before it returns, and it returns absent
\* only directly after a poll made when the time slept so far is >= timeout
\* (= timeout when the wait interval divides it).
C13_AbsentOnlyAfterPollPastTimeout ==
    /\ [](IsBlocking =>
            /\ pc = "done" => polls >= 1
            /\ result = Absent =>
                  /\ slept >= call.timeout
                  /\ call.timeout % call.wait = 0 => slept = call.timeout)
    /\ [][(call'.op \in BlockingOps /\ result' = Absent /\ result # Absent) =>
            /\ polls' = polls + 1
            /\ slept' = slept
            /\ slept >= call.timeout]_vars

C13_Witness ==
    /\ pc = "done"
    /\ IsBlocking
    /\ result = Absent
    /\ call.timeout = 1
    /\ call.wait = 2
    /\ polls = 2
    /\ slept = 2

\* C14: a wait sleeps only between two polls and each sleep lasts the wait
\* interval: a poll without a match made while less than timeout was slept
\* is followed by one sleep and then a poll, and no sleep follows the poll
\* that finds a match or the last poll (sleeps = polls - 1 at the end).
C14_SleepsOnlyBetweenPolls ==
    /\ [](IsBlocking =>
            /\ slept = sleeps * call.wait
            /\ pc = "poll" => sleeps = polls
            /\ pc \in {"sleep", "done"} => sleeps = polls - 1
            /\ pc = "sleep" => slept < call.timeout)
    /\ [][(IsBlocking /\ pc = "poll" /\ polls' = polls + 1) =>
            /\ sleeps' = sleeps
            /\ IF result'.kind \in {"match", "error"} THEN pc' = "done"
               ELSE IF slept < call.timeout THEN pc' = "sleep"
               ELSE pc' = "done" /\ result' = Absent]_vars
    /\ [][(IsBlocking /\ pc = "sleep" /\ pc' # "sleep") =>
            /\ sleeps' = sleeps + 1
            /\ slept' = slept + call.wait
            /\ polls' = polls
            /\ pc' = "poll"]_vars

C14_Witness ==
    /\ pc = "done"
    /\ IsBlocking
    /\ result = Absent
    /\ call.wait = 1
    /\ call.timeout = 2
    /\ polls = 3
    /\ sleeps = 2

\* C16: every log request of a wait carries the block range, the address
\* and the event and argument filters the call was given, whatever earlier
\* polls returned; and a poll returns every entry of the chain the call
\* waits for.
C16_EveryPollSameQuery ==
    /\ [](IsBlocking /\ fetches >= 1 =>
            /\ lastQuery.fromBlock = call.from_block
            /\ lastQuery.toBlock = call.to_block
            /\ lastQuery.address = ADDRESS
            /\ lastQuery = FilterParams(EventAbis(abi, call.event_name)[1], call.filters,
                                        call.from_block, call.to_block))
    /\ [][(/\ IsBlocking
           /\ pc = "poll"
           /\ polls' = polls + 1
           /\ result'.kind # "error"
           /\ EventEntryCount(call.event_name) = 1)
            => \A k \in 1..Len(chainLogs) :
                  RawFits(call, chainLogs[k]) =>
                      \E j \in 1..Len(lastLogs') :
                          /\ lastLogs'[j].topics = chainLogs[k].topics
                          /\ lastLogs'[j].data = chainLogs[k].data
                          /\ lastLogs'[j].blockNumber = chainLogs[k].blockNumber]_vars

C16_Witness ==
    /\ pc = "sleep"
    /\ IsBlocking
    /\ polls >= 2
    /\ Len(lastLogs) = 2
    /\ lastQuery.fromBlock = 0
    /\ call.filters # {}

\* C20: the time a wait has slept is always a multiple of the wait interval
\* and less than timeout + wait; a wait that returns absent has slept the
\* smallest multiple of the wait interval that is >= timeout.
C20_SleptSmallestMultiplePastTimeout ==
    IsBlocking =>
        /\ slept % call.wait = 0
        /\ slept < call.timeout + call.wait
        /\ result = Absent =>
              /\ slept = CeilDiv(call.timeout, call.wait) * call.wait
              /\ slept >= call.timeout
              /\ slept - call.wait < call.timeout
              /\ call.timeout % call.wait # 0 => slept > call.timeout

C20_Witness ==
    /\ pc = "done"
    /\ IsBlocking
    /\ result = Absent
    /\ call.timeout = DEFAULT_TIMEOUT
    /\ call.wait = DEFAULT_RETRY_INTERVAL
    /\ slept = 21

(***************************************************************************)
(* The state machine of the specification's section 4.3, read on the       *)
(* call's variables with elapsed = slept.                                  *)
(***************************************************************************)
SmLoopGuard(elapsed, c) == elapsed <= c.timeout + c.wait

SmAccepted(c, logs) == SelectSeq(logs, LAMBDA e : AcceptedBy(c.condition, e))

\* 1. elapsed = 0, then the loop test.
SmStart ==
    /\ pc = "idle"
    /\ call'.op \in BlockingOps
    /\ slept' = 0 /\ polls' = 0 /\ sleeps' = 0
    /\ IF SmLoopGuard(0, call') THEN pc' = "poll"
       ELSE pc' = "done" /\ result' = Absent

\* 2a-2e. one poll: MATCHED with the first accepted entry, a sleep when
\* elapsed < timeout, else TIMED_OUT.
SmPoll ==
    /\ pc = "poll"
    /\ SmLoopGuard(slept, call)
    /\ polls' = polls + 1
    /\ sleeps' = sleeps /\ slept' = slept /\ call' = call
    /\ IF result'.kind = "error" THEN pc' = "done"
       ELSE IF SmAccepted(call, lastLogs') # << >>
       THEN pc' = "done" /\ result' = Match(SmAccepted(call, lastLogs')[1])
       ELSE IF slept < call.timeout THEN pc' = "sleep" /\ result' = result
       ELSE pc' = "done" /\ result' = Absent

\* 2d. the sleep ends: elapsed += waitInterval, then the loop test.
SmSleep ==
    /\ pc = "sleep"
    /\ sleeps' = sleeps + 1
    /\ slept' = slept + call.wait
    /\ polls' = polls /\ call' = call
    /\ IF SmLoopGuard(slept + call.wait, call) THEN pc' = "poll" /\ result' = result
       ELSE pc' = "done" /\ result' = Absent

\* C15: every step of a wait is the step the state machine of section 4.3
\* takes on the same poll result: the same polls, sleeps and result.
C15_LoopIsSpecStateMachine ==
    [][(IsBlocking \/ call'.op \in BlockingOps)
        => (SmStart \/ SmPoll \/ SmSleep \/ CallUntouched)]_vars

C15_Witness ==
    /\ pc = "done"
    /\ IsBlocking
    /\ result = Absent
    /\ call.timeout = 3
    /\ call.wait = 2
    /\ polls = 3
    /\ sleeps = 2
    /\ slept = 4

\* C19: a started wait returns: it never makes more polls than its budget
\* of ceil(timeout / wait) + 1, a running call always ends, and it ends by
\* a match, by an error or by using up the budget.
C19_WaitTerminates ==
    /\ [](IsBlocking =>
            /\ polls <= CeilDiv(call.timeout, call.wait) + 1
            /\ sleeps <= CeilDiv(call.timeout, call.wait)
            /\ pc = "done" =>
                  \/ result.kind \in {"match", "error"}
                  \/ result = Absent /\ polls = CeilDiv(call.timeout, call.wait) + 1)
    /\ [](IsBlocking /\ pc \in {"poll", "sleep"} => <>(pc = "done"))

C19_Witness ==
    /\ pc = "done"
    /\ IsBlocking
    /\ result = Absent
    /\ call.timeout = 3
    /\ call.wait = 1
    /\ polls = 4
    /\ Len(lastLogs) = 0

\* C18: a build leaves the account's transaction count and the proxy's
\* fields as they were, and two builds with the same nonce offset and no
\* transaction mined in between have the same nonce.
C18_BuildKeepsNoState ==
    /\ [][builds' # builds =>
            /\ txCount' = txCount
            /\ UNCHANGED << abi, gas_price, gas_limit >>
            /\ builds'[Len(builds')].count = txCount]_vars
    /\ [](\A a, b \in 1..Len(builds) :
            (/\ builds[a].nonce_offset = builds[b].nonce_offset
             /\ builds[a].count = builds[b].count)
                => /\ builds[a].tx.nonce = builds[b].tx.nonce
                   /\ builds[a].tx.data = builds[b].tx.data => builds[a].hex = builds[b].hex)

C18_Witness ==
    /\ Len(builds) = 2
    /\ txCount = 2
    /\ builds[1].count = 2
    /\ builds[2].count = 2
    /\ builds[1].nonce_offset = 1
    /\ builds[2].nonce_offset = 1
    /\ builds[2].tx.nonce = 3

\* The locals of the first and of the second call in progress, as one frame.
FirstFrame ==
    [pc |-> pc, call |-> call, polls |-> polls, sleeps |-> sleeps,
     slept |-> slept, lastLogs |-> lastLogs, result |-> result]

SecondFrame ==
    [pc |-> other.pc, call |-> other.call, polls |-> other.polls,
     sleeps |-> other.sleeps, slept |-> other.slept,
     lastLogs |-> other.lastLogs, result |-> other.result]

\* The entries of the log that the query of the call c returns, and those of
\* them that the call accepts.
QueriedBy(c, log) ==
    SelectSeq(log, LAMBDA e : RawFits([c EXCEPT !.condition = NoCondition], e))

WaitedForBy(c, log) == SelectSeq(log, LAMBDA e : RawFits(c, e))

\* A step from frame a to frame b of a wait that runs alone against the log:
\* it depends on nothing but the call's own arguments and counters and the
\* log at the time of the step.
WaitAlone(a, b, log) ==
    \/ /\ a.pc = "idle"
       /\ b.call.op \in BlockingOps
       /\ b.pc = "poll" /\ b.polls = 0 /\ b.sleeps = 0 /\ b.slept = 0
       /\ b.result = NoResult
    \/ /\ a.pc = "poll"
       /\ b.call = a.call /\ b.polls = a.polls + 1
       /\ b.sleeps = a.sleeps /\ b.slept = a.slept
       /\ \/ b.pc = "done" /\ b.result.kind = "error"
          \/ /\ Len(b.lastLogs) = Len(QueriedBy(a.call, log))
             /\ \A k \in 1..Len(b.lastLogs) :
                   b.lastLogs[k].blockNumber = QueriedBy(a.call, log)[k].blockNumber
             /\ IF WaitedForBy(a.call, log) # << >>
                THEN /\ b.pc = "done" /\ b.result.kind = "match"
                     /\ b.result.entry.blockNumber
                            = WaitedForBy(a.call, log)[1].blockNumber
                ELSE IF a.slept < a.call.timeout
                THEN b.pc = "sleep" /\ b.result = a.result
                ELSE b.pc = "done" /\ b.result = Absent
    \/ /\ a.pc = "sleep"
       /\ b.call = a.call /\ b.polls = a.polls
       /\ b.sleeps = a.sleeps + 1 /\ b.slept = a.slept + a.call.wait
       /\ b.lastLogs = a.lastLogs /\ b.result = a.result
       /\ b.pc = "poll"
    \/ /\ a.pc = "done"
       /\ b.pc = "idle" /\ b.call = NoCall

\* The counts of a frame are those of a wait alone: one sleep between two
\* polls, each of the call's own interval, and absent only after the call's
\* own ceil(timeout / wait) + 1 polls.
CountsAlone(f) ==
    f.call.op \in BlockingOps =>
        /\ f.slept = f.sleeps * f.call.wait
        /\ f.sleeps = IF f.pc = "poll" THEN f.polls ELSE f.polls - 1
        /\ (f.pc = "done" /\ f.result = Absent)
              => f.polls = CeilDiv(f.call.timeout, f.call.wait) + 1

\* C17: two waits in progress at once on one proxy, also for the same event
\* of the same channel, do not affect each other: every step belongs to one
\* of them and leaves the other's locals alone, each step of a call is the
\* step the call would take alone against the log as it is then (its own
\* poll, its own elapsed time, its own result), and the polls and sleeps of
\* each call are those of a call alone.
C17_ConcurrentWaitsIndependent ==
    /\ [][/\ ~(FirstFrame' # FirstFrame /\ SecondFrame' # SecondFrame)
          /\ FirstFrame' # FirstFrame => WaitAlone(FirstFrame, FirstFrame', chainLogs)
          /\ SecondFrame' # SecondFrame
                => WaitAlone(SecondFrame, SecondFrame', chainLogs)]_vars
    /\ [](CountsAlone(FirstFrame) /\ CountsAlone(SecondFrame))

\* Two waits for a top-up of the same channel have run interleaved, with
\* different intervals: the first ended absent after its three polls, the
\* second returned its match at its second poll.
C17_Witness ==
    /\ pc = "done" /\ result = Absent /\ polls = 3 /\ sleeps = 2
    /\ other.pc = "done" /\ other.result.kind = "match"
    /\ other.call.event_name = "ChannelToppedUp"
    /\ other.call.wait = 1
    /\ other.polls = 2 /\ other.sleeps = 1

====
